---- MODULE Spec2Model ----
(***************************************************************************)
(* cargo-apply: the parent harness (base_invocation) loops over the        *)
(* assembled crates and, for each, process_crate re-invokes the binary as  *)
(* a child with --recurse, captures its stdout/stderr and writes           *)
(* results.txt.  The model follows src/src/main.rs one filesystem call per *)
(* step, so that the harness can be killed between any two of them.        *)
(*                                                                         *)
(* Strings are sequences of one-character strings.  A file is a record     *)
(* [pkg, att, stream, len, status]: whose child produced its bytes (pkg,   *)
(* att), which of the child's streams they are, whether all of them are    *)
(* on disk (len "full") or at most a prefix (len "short") and, for         *)
(* results.txt, the exit status written.  A file that does not exist is    *)
(* not in the DOMAIN of its directory function.                            *)
(*                                                                         *)
(* Environment failures that the code handles with `?` are modelled as     *)
(* nondeterministic outcomes of the call: create_dir_all of a new          *)
(* directory, current_exe/spawn, File::create, write_all, write!.          *)
(* remove_file of an existing file always removes it (its error, ignored   *)
(* by `let _ =`, is the file not existing).                                *)
(*                                                                         *)
(* Spec follows harness runs one after the other, with kills.  SpecInvoke  *)
(* follows one run from its argv to the command of each child and what the *)
(* child decodes from it.  SpecChild follows the child through             *)
(* recursive_invocation and the stages of build_crate.  SpecParse applies  *)
(* assemble_crate_names to single spec strings.                            *)
(***************************************************************************)
EXTENDS Integers, Sequences, FiniteSets, TLC

VARIABLES
    arg_package_name, \* Args.arg_package_name: the specs on the command line
    flag_force,       \* Args.flag_force of the current run
    run,              \* number of harness processes started so far
    prev,             \* how the previous harness process ended, and its --force
    pc,               \* position of the harness process
    assembled,        \* result of assemble_crate_names: [ok, val]
    crates,           \* the Vec<KrateName> the loop iterates over
    i,                \* index of the loop over crates
    dirs,             \* existing krate_dir directories under output/
    out,              \* krate_str -> content of <krate_dir>/stdout
    err,              \* krate_str -> content of <krate_dir>/stderr
    res,              \* krate_str -> content of <krate_dir>/results.txt
    output,           \* the std::process::Output in hand, or NoOutput
    result,           \* what process_crate returned: "none", "ok", "err"
    console,          \* lines on the harness's own stdout in this run
    spawned,          \* loop indices for which this run spawned a child
    done0,            \* the krate_dirs that held results.txt when this run started
    index,            \* the directory at index_path: [readable, entries]
    exit_code,        \* how the harness process ended: "none" while it runs
    inflight,         \* loop indices whose child process is running
    finished,         \* how each returned process_crate call of this run ended
    arg_strings,      \* env::args() of the parent, argv[0] included
    args,             \* the Args the parent decoded, or DocoptError
    child_argv,       \* env::args() of the child spawned for crates[i]
    child_args,       \* the Args the child decoded, or DocoptError
    child_crates,     \* krate_names in recursive_invocation: [ok, val]
    child_k,          \* index of the child's loop over krate_names
    child_pc,         \* position of the child process inside build_crate
    child_status,     \* exit status of the child process, "none" while it runs
    child_log         \* the stages the child has run, with their results

vars == <<arg_package_name, flag_force, run, prev, pc, assembled, crates, i,
          dirs, out, err, res, output, result, console, spawned, done0,
          index, exit_code, inflight, finished, arg_strings, args, child_argv,
          child_args, child_crates, child_k, child_pc, child_status,
          child_log>>

-----------------------------------------------------------------------------
(* Bounds *)

\* number of harness processes (runs) started one after the other
MaxRuns == 2
\* number of package specs on the command line
MaxArgs == 2
\* length of the spec strings the parser is applied to
MaxLen == 3

-----------------------------------------------------------------------------
(* Strings and KrateName *)

NoVersion == <<>>

Some(v) == <<v>>

KrateName(n, v) == [name |-> n, version |-> v]

\* impl fmt::Display for KrateName
to_string(krate) ==
    IF krate.version # NoVersion
    THEN krate.name \o <<"=">> \o krate.version[1]
    ELSE krate.name

-----------------------------------------------------------------------------
(* The regex of assemble_crate_names:  \s*([^=\s]+)\s*(?:=\s*([^=\s]+))?   *)
(* applied with Regex::captures, which searches for the leftmost match     *)
(* anywhere in the string (the pattern has no ^ or $ anchors).             *)

IsSpace(c) == c = " "

IsTok(c) == c # "=" /\ ~IsSpace(c)

\* \s* (greedy): the first position at or after p that holds no whitespace
RECURSIVE SkipSpace(_, _)
SkipSpace(s, p) ==
    IF p <= Len(s) /\ IsSpace(s[p]) THEN SkipSpace(s, p + 1) ELSE p

\* [^=\s]+ (greedy): the first position at or after p that holds no token char
RECURSIVE TokEnd(_, _)
TokEnd(s, p) ==
    IF p <= Len(s) /\ IsTok(s[p]) THEN TokEnd(s, p + 1) ELSE p

NoMatch == [matched |-> FALSE, g1 |-> <<>>, g2 |-> NoVersion]

\* the optional group (?:=\s*([^=\s]+))? tried at position r
Group2(s, r) ==
    IF r <= Len(s) /\ s[r] = "="
    THEN LET v == SkipSpace(s, r + 1)
             e == TokEnd(s, v)
         IN IF e > v THEN Some(SubSeq(s, v, e - 1)) ELSE NoVersion
    ELSE NoVersion

\* the pattern tried with the match starting at position p
MatchAt(s, p) ==
    LET q == SkipSpace(s, p)
        e == TokEnd(s, q)
    IN IF e > q
       THEN [matched |-> TRUE,
             g1 |-> SubSeq(s, q, e - 1),
             g2 |-> Group2(s, SkipSpace(s, e))]
       ELSE NoMatch

\* Regex::captures: the match at the leftmost start position that has one
RECURSIVE SearchFrom(_, _)
SearchFrom(s, p) ==
    IF p > Len(s) THEN NoMatch
    ELSE IF MatchAt(s, p).matched THEN MatchAt(s, p)
    ELSE SearchFrom(s, p + 1)

captures(s) == SearchFrom(s, 1)

-----------------------------------------------------------------------------
(* The registry index walked for the "*" spec *)

\* the entries under index_path in WalkDir's pre-order: path components below
\* the root and whether the entry is a regular file
IndexEntries ==
    << [path |-> <<<<"a">>>>, is_file |-> TRUE],
       [path |-> <<<<".", "g">>>>, is_file |-> FALSE],
       [path |-> <<<<".", "g">>, <<"h">>>>, is_file |-> TRUE],
       [path |-> <<<<"c">>>>, is_file |-> FALSE],
       [path |-> <<<<"c">>, <<"d">>>>, is_file |-> TRUE] >>

\* the index the harness runs are checked with
Index == [readable |-> TRUE, entries |-> IndexEntries]

\* WalkDir::new(index_path) ... .filter_map(|e| e.ok()): the walk of a root
\* that cannot be read yields one Err, which is dropped
WalkDir(index_path) ==
    IF index_path.readable THEN index_path.entries ELSE <<>>

Json == <<".", "j", "s", "o", "n">>

starts_with(s, pre) == Len(s) >= Len(pre) /\ SubSeq(s, 1, Len(pre)) = pre

ends_with(s, suf) ==
    Len(s) >= Len(suf) /\ SubSeq(s, Len(s) - Len(suf) + 1, Len(s)) = suf

bad_hidden_only(name) == starts_with(name, <<".">>)

\* fn bad: applied to the entry's file name
bad(name) == starts_with(name, <<".">>) \/ ends_with(name, Json)

\* filter_entry(|e| !bad(e)): a bad entry is dropped and not descended into
Pruned(path) == \E k \in 1..Len(path) : bad(path[k])

RECURSIVE SelectNames(_, _)
SelectNames(entries, k) ==
    IF k > Len(entries) THEN <<>>
    ELSE LET e == entries[k]
         IN (IF ~Pruned(e.path) /\ e.is_file
             THEN <<KrateName(e.path[Len(e.path)], NoVersion)>>
             ELSE <<>>) \o SelectNames(entries, k + 1)

-----------------------------------------------------------------------------
(* assemble_crate_names *)

Star == <<"*">>

\* the explicit branch: map each spec to Ok(KrateName) or Err(()), and collect
\* into Result<Vec<_>, ()>, which is Err as soon as one element is Err
RECURSIVE CollectSpecs(_, _)
CollectSpecs(names, k) ==
    IF k > Len(names) THEN [ok |-> TRUE, val |-> <<>>]
    ELSE LET c == captures(names[k])
         IN IF ~c.matched THEN [ok |-> FALSE, val |-> <<>>]
            ELSE LET rest == CollectSpecs(names, k + 1)
                 IN IF rest.ok
                    THEN [ok |-> TRUE,
                          val |-> <<KrateName(c.g1, c.g2)>> \o rest.val]
                    ELSE rest

assemble_crate_names(names, index_path) ==
    IF \E k \in 1..Len(names) : names[k] = Star
    THEN [ok |-> TRUE, val |-> SelectNames(WalkDir(index_path), 1)]
    ELSE CollectSpecs(names, 1)

-----------------------------------------------------------------------------
(* Files under <out>/output/<krate_str>/ *)

\* a file just created or truncated
EmptyFile ==
    [pkg |-> <<>>, att |-> <<0, 0>>, stream |-> "", len |-> "short", status |-> ""]

NoFiles == [k \in {} |-> EmptyFile]

NoOutput == [pkg |-> <<>>, att |-> <<0, 0>>, status |-> ""]

\* ExitStatus of the child: exit code 0, exit code 101 (a panic, as from the
\* unwrap in recursive_invocation), or death by a signal
ExitStatuses == {"exit0", "exit101", "signal"}

\* ExitStatus::success
success(status) == status = "exit0"

\* output_dir.join(&krate_str): the directory is named by the display string
krate_dir(krate_str) == krate_str

\* fs::metadata(path).is_ok()
exists(f, path) == path \in DOMAIN f

\* the file left in place
remove_file_kept(f, path) == f

\* fs::remove_file: the file is gone afterwards (an error, when there was no
\* file, is ignored by the caller)
remove_file(f, path) == [k \in DOMAIN f \ {path} |-> f[k]]

\* File::create: creates the file, or truncates it when it exists
File_create(f, path) ==
    [k \in DOMAIN f \cup {path} |-> IF k = path THEN EmptyFile ELSE f[k]]

\* write_all / write!: all the bytes are on disk when it returns Ok
write_all(f, path, bytes) == [f EXCEPT ![path] = bytes]

\* write_all / write! returning Err: at most a prefix of the bytes is on disk
write_failed(f, path, bytes) == [f EXCEPT ![path] = [bytes EXCEPT !.len = "short"]]

\* output.stdout, output.stderr and the formatted "exit code `{:?}`"
stdout_bytes(o) ==
    [pkg |-> o.pkg, att |-> o.att, stream |-> "stdout", len |-> "full", status |-> ""]

stderr_bytes(o) ==
    [pkg |-> o.pkg, att |-> o.att, stream |-> "stderr", len |-> "full", status |-> ""]

result_bytes(o) ==
    [pkg |-> o.pkg, att |-> o.att, stream |-> "status", len |-> "full",
     status |-> o.status]

\* the skip taken when --force is given instead of when it is not
skip_inverted(has_result, force) == has_result /\ force

\* the skip never taken
skip_never(has_result, force) == FALSE

\* "Skip if a result file already exists": the early return of process_crate
skip_existing(has_result, force) == has_result /\ ~force

Line(kind, krate_str) == [kind |-> kind, krate |-> krate_str]

\* the child started with the parent's stdout and stderr (Command::status())
child_stdio_inherited(con, krate_str) == con \cup {Line("child output", krate_str)}

\* Command::output(): the child's stdout and stderr are pipes read by the
\* parent, so nothing of the child reaches the parent's console
child_stdio(con, krate_str) == con

output_without_wait(running, child) == running

\* Command::output() waits for the child it spawned: when it returns, that
\* child is not running any more
wait_with_output(running, child) == running \ {child}

\* how a process_crate call ended, from what it returned and whether it got
\* a child's Output
outcome(returned, child_output) ==
    IF returned = "err" THEN "failed"
    ELSE IF child_output = NoOutput THEN "skipped"
    ELSE "recorded"

-----------------------------------------------------------------------------
(* The command line: docopt on USAGE, and the command of the child *)

\* argv[0] of the parent, and env::current_exe()
Argv0 == <<"c", "a", "r", "g", "o", "-", "a", "p", "p", "l", "y">>

RecurseFlag == <<"-", "-", "r", "e", "c", "u", "r", "s", "e">>

OutFlag == <<"-", "-", "o", "u", "t">>

TestFlags == {<<"-", "t">>, <<"-", "-", "t", "e", "s", "t">>}

BenchFlags == {<<"-", "b">>, <<"-", "-", "b", "e", "n", "c", "h">>}

ForceFlag == <<"-", "-", "f", "o", "r", "c", "e">>

ReleaseFlag == <<"-", "-", "r", "e", "l", "e", "a", "s", "e">>

\* --out DIR [default: work]
DefaultOut == <<"w", "o", "r", "k">>

\* the usage error of docopt
DocoptError == [ok |-> FALSE]

\* struct Args before any argument is read
NoArgs ==
    [ok |-> TRUE, flag_out |-> DefaultOut, out_given |-> FALSE,
     flag_release |-> FALSE, flag_test |-> FALSE, flag_bench |-> FALSE,
     flag_force |-> FALSE, arg_package_name |-> <<>>]

\* docopt matches `[options] <package-name>...`: an option may stand anywhere,
\* --out takes the next argument as DIR, an option of the Options section
\* occurs at most once, an unknown option is an error, every other argument
\* is a <package-name>
RECURSIVE Decode(_, _, _)
Decode(argv, k, acc) ==
    IF k > Len(argv)
    THEN IF acc.arg_package_name = <<>> THEN DocoptError ELSE acc
    ELSE LET tok == argv[k]
         IN IF tok = OutFlag
            THEN IF k + 1 > Len(argv) \/ acc.out_given THEN DocoptError
                 ELSE Decode(argv, k + 2,
                             [acc EXCEPT !.flag_out = argv[k + 1], !.out_given = TRUE])
            ELSE IF tok \in TestFlags
            THEN IF acc.flag_test THEN DocoptError
                 ELSE Decode(argv, k + 1, [acc EXCEPT !.flag_test = TRUE])
            ELSE IF tok \in BenchFlags
            THEN IF acc.flag_bench THEN DocoptError
                 ELSE Decode(argv, k + 1, [acc EXCEPT !.flag_bench = TRUE])
            ELSE IF tok = ForceFlag
            THEN IF acc.flag_force THEN DocoptError
                 ELSE Decode(argv, k + 1, [acc EXCEPT !.flag_force = TRUE])
            ELSE IF tok = ReleaseFlag
            THEN IF acc.flag_release THEN DocoptError
                 ELSE Decode(argv, k + 1, [acc EXCEPT !.flag_release = TRUE])
            ELSE IF starts_with(tok, <<"-">>) /\ Len(tok) > 1
            THEN DocoptError
            ELSE Decode(argv, k + 1,
                        [acc EXCEPT !.arg_package_name = Append(@, tok)])

\* Docopt::new(USAGE).argv(argv).decode(): argv[0] is the program name
docopt(argv) == Decode(argv, 2, NoArgs)

\* base_invocation, lines 84-87: all arguments but the last N
config_options(argv, a) ==
    SubSeq(argv, 1, Len(argv) - Len(a.arg_package_name))

\* process_crate, lines 176-179: the command of the child
Command(options, krate_string) ==
    <<Argv0, RecurseFlag>> \o options \o <<krate_string>>

\* Vec::remove(index), with indices from 1
remove(v, n) == SubSeq(v, 1, n - 1) \o SubSeq(v, n + 1, Len(v))

\* recursive_invocation, lines 218-221: what the child decodes
child_decode(argv) == docopt(Tail(remove(argv, 2)))

\* <flag_out>/index: the child reads the parent's index when it decodes the
\* parent's --out, and a directory that does not exist otherwise
NoIndex == [readable |-> FALSE, entries |-> <<>>]

index_path(a, parent, parent_index) ==
    IF a.flag_out = parent.flag_out THEN parent_index ELSE NoIndex

-----------------------------------------------------------------------------
(* The harness process *)

Running == {"setup", "assemble", "mkdir", "check", "rm_out", "rm_err", "rm_res",
            "spawn", "wait", "create_out", "write_out", "create_err", "write_err",
            "create_res", "write_res", "ret"}

Stopped == {"off", "done", "dead", "aborted", "usage"}

\* the spec strings of the harness runs: two that parse and one that does not
SpecPool == {<<"a">>, <<"b", "=", "1">>, <<"=">>}

RECURSIVE SeqsUpTo(_, _)
SeqsUpTo(S, n) ==
    IF n = 0 THEN {<<>>}
    ELSE LET shorter == SeqsUpTo(S, n - 1)
         IN shorter \cup {Append(s, x) : s \in shorter, x \in S}

\* the command lines of the harness runs; the harness treats the two specs
\* that parse alike, so of two lists that differ by exchanging them only the
\* one whose first such spec is "a" is taken
RECURSIVE FirstParsed(_, _)
FirstParsed(names, k) ==
    IF k > Len(names) THEN <<>>
    ELSE IF captures(names[k]).matched THEN names[k]
    ELSE FirstParsed(names, k + 1)

ArgLists ==
    {names \in SeqsUpTo(SpecPool, MaxArgs) \ {<<>>} :
        FirstParsed(names, 1) \in {<<>>, <<"a">>}}

NotAssembled == [ok |-> FALSE, val |-> <<>>]

\* the memory of a harness process that has not assembled its crates yet
Fresh ==
    /\ assembled = NotAssembled
    /\ crates = <<>>
    /\ i = 0
    /\ output = NoOutput
    /\ result = "none"
    /\ console = {}
    /\ spawned = <<>>
    /\ inflight = {}
    /\ finished = <<>>

\* a harness process starts, or ends, with that memory
Forget ==
    /\ assembled' = NotAssembled
    /\ crates' = <<>>
    /\ i' = 0
    /\ output' = NoOutput
    /\ result' = "none"
    /\ console' = {}
    /\ spawned' = <<>>
    /\ inflight' = {}
    /\ finished' = <<>>

\* argv and the child process are not followed
NoRecursion ==
    /\ arg_strings = <<>>
    /\ args = DocoptError
    /\ child_argv = <<>>
    /\ child_args = DocoptError
    /\ child_crates = NotAssembled
    /\ child_k = 0
    /\ child_pc = "none"
    /\ child_status = "none"
    /\ child_log = <<>>

\* the harness before any of its processes has run, for a given command line
Off(names, at) ==
    /\ arg_package_name = names
    /\ flag_force = FALSE
    /\ run = 0
    /\ prev = [how |-> "off", force |-> FALSE]
    /\ pc = at
    /\ Fresh
    /\ dirs = {}
    /\ out = NoFiles
    /\ err = NoFiles
    /\ res = NoFiles
    /\ done0 = {}
    /\ index = Index
    /\ exit_code = "none"

\* the state before any harness process has run, for a given command line
Idle(names, at) ==
    /\ Off(names, at)
    /\ NoRecursion

Init == \E names \in ArgLists : Idle(names, "off")

\* the parent's command line as given, and the child process
recursion == <<arg_strings, args, child_argv, child_args, child_crates,
               child_k, child_pc, child_status, child_log>>

cmdline == <<arg_package_name, flag_force, run, prev, index, recursion>>

files == <<dirs, out, err, res>>

krate == crates[i]

krate_str == to_string(krate)

\* process_crate returns Err (a `?` fired)
ReturnErr ==
    /\ result' = "err"
    /\ pc' = "ret"

\* main / base_invocation, lines 67-87: a harness process is started
StartRun ==
    /\ pc \in Stopped
    /\ run < MaxRuns
    /\ run' = run + 1
    /\ \E f \in BOOLEAN : flag_force' = f
    /\ prev' = [how |-> pc, force |-> flag_force]
    /\ pc' = "setup"
    /\ Forget
    /\ done0' = DOMAIN res
    /\ exit_code' = "none"
    /\ UNCHANGED <<arg_package_name, files, index, recursion>>

\* base_invocation, lines 89-123: directories, index, registry, cargo config;
\* every step is unwrapped, so a failure panics
Setup ==
    /\ pc = "setup"
    /\ \/ /\ pc' = "assemble"
          /\ UNCHANGED exit_code
       \/ /\ pc' = "aborted"
          /\ exit_code' = "exit101"
    /\ UNCHANGED <<cmdline, files, assembled, crates, i, output, result,
                   console, spawned, done0, inflight, finished>>

\* base_invocation, lines 125-129
Assemble ==
    /\ pc = "assemble"
    /\ assembled' = assemble_crate_names(arg_package_name, index)
    /\ IF assembled'.ok /\ assembled'.val # <<>>
       THEN /\ crates' = assembled'.val
            /\ i' = 1
            /\ pc' = "mkdir"
            /\ UNCHANGED exit_code
       ELSE /\ crates' = <<>>
            /\ i' = 0
            /\ pc' = "done"
            /\ exit_code' = "exit0"
    /\ UNCHANGED <<cmdline, files, output, result, console, spawned, done0,
                   inflight, finished>>

\* process_crate, line 153: fs::create_dir_all(krate_dir)?
CreateDir ==
    /\ pc = "mkdir"
    /\ \/ /\ dirs' = dirs \cup {krate_dir(krate_str)}
          /\ pc' = "check"
          /\ UNCHANGED result
       \/ /\ krate_dir(krate_str) \notin dirs
          /\ ReturnErr
          /\ UNCHANGED dirs
    /\ UNCHANGED <<cmdline, out, err, res, assembled, crates, i, output,
                   console, spawned, done0, exit_code, inflight, finished>>

\* process_crate, lines 159-167
CheckExisting ==
    /\ pc = "check"
    /\ IF skip_existing(exists(res, krate_dir(krate_str)), flag_force)
       THEN /\ console' = console \cup {Line("re-using existing results", krate_str)}
            /\ result' = "ok"
            /\ pc' = "ret"
       ELSE /\ console' = console \cup {Line("processing", krate_str)}
            /\ pc' = "rm_out"
            /\ UNCHANGED result
    /\ UNCHANGED <<cmdline, files, assembled, crates, i, output, spawned, done0,
                   exit_code, inflight, finished>>

\* process_crate, line 170
RemoveOut ==
    /\ pc = "rm_out"
    /\ out' = remove_file(out, krate_dir(krate_str))
    /\ pc' = "rm_err"
    /\ UNCHANGED <<cmdline, dirs, err, res, assembled, crates, i, output, result,
                   console, spawned, done0, exit_code, inflight, finished>>

\* process_crate, line 171
RemoveErr ==
    /\ pc = "rm_err"
    /\ err' = remove_file(err, krate_dir(krate_str))
    /\ pc' = "rm_res"
    /\ UNCHANGED <<cmdline, dirs, out, res, assembled, crates, i, output, result,
                   console, spawned, done0, exit_code, inflight, finished>>

\* process_crate, line 172
RemoveRes ==
    /\ pc = "rm_res"
    /\ res' = remove_file(res, krate_dir(krate_str))
    /\ pc' = "spawn"
    /\ UNCHANGED <<cmdline, dirs, out, err, assembled, crates, i, output, result,
                   console, spawned, done0, exit_code, inflight, finished>>

\* process_crate, lines 174-180: env::current_exe()? and the spawn inside
\* Command::output(); the child's stdout and stderr are pipes
Spawn ==
    /\ pc = "spawn"
    /\ \/ /\ spawned' = Append(spawned, i)
          /\ inflight' = inflight \cup {i}
          /\ console' = child_stdio(console, krate_str)
          /\ pc' = "wait"
          /\ UNCHANGED result
       \/ /\ ReturnErr
          /\ UNCHANGED <<spawned, inflight, console>>
    /\ UNCHANGED <<cmdline, files, assembled, crates, i, output, done0,
                   exit_code, finished>>

\* process_crate, line 180: Command::output() returns when the child has
\* exited; the attempt is named by the run and the loop index that spawned it
Wait ==
    /\ pc = "wait"
    /\ \E status \in ExitStatuses :
          output' = [pkg |-> krate_str, att |-> <<run, i>>, status |-> status]
    /\ inflight' = wait_with_output(inflight, i)
    /\ pc' = "create_out"
    /\ UNCHANGED <<cmdline, files, assembled, crates, i, result, console,
                   spawned, done0, exit_code, finished>>

\* process_crate, line 183
CreateOut ==
    /\ pc = "create_out"
    /\ \/ /\ out' = File_create(out, krate_dir(krate_str))
          /\ pc' = "write_out"
          /\ UNCHANGED result
       \/ /\ ReturnErr
          /\ UNCHANGED out
    /\ UNCHANGED <<cmdline, dirs, err, res, assembled, crates, i, output,
                   console, spawned, done0, exit_code, inflight, finished>>

\* process_crate, line 184
WriteOut ==
    /\ pc = "write_out"
    /\ \/ /\ out' = write_all(out, krate_dir(krate_str), stdout_bytes(output))
          /\ pc' = "create_err"
          /\ UNCHANGED result
       \/ /\ out' = write_failed(out, krate_dir(krate_str), stdout_bytes(output))
          /\ ReturnErr
    /\ UNCHANGED <<cmdline, dirs, err, res, assembled, crates, i, output,
                   console, spawned, done0, exit_code, inflight, finished>>

\* process_crate, line 185
CreateErr ==
    /\ pc = "create_err"
    /\ \/ /\ err' = File_create(err, krate_dir(krate_str))
          /\ pc' = "write_err"
          /\ UNCHANGED result
       \/ /\ ReturnErr
          /\ UNCHANGED err
    /\ UNCHANGED <<cmdline, dirs, out, res, assembled, crates, i, output,
                   console, spawned, done0, exit_code, inflight, finished>>

\* process_crate, line 186
WriteErr ==
    /\ pc = "write_err"
    /\ \/ /\ err' = write_all(err, krate_dir(krate_str), stderr_bytes(output))
          /\ pc' = "create_res"
          /\ UNCHANGED result
       \/ /\ err' = write_failed(err, krate_dir(krate_str), stderr_bytes(output))
          /\ ReturnErr
    /\ UNCHANGED <<cmdline, dirs, out, res, assembled, crates, i, output,
                   console, spawned, done0, exit_code, inflight, finished>>

\* process_crate, line 187
CreateRes ==
    /\ pc = "create_res"
    /\ \/ /\ res' = File_create(res, krate_dir(krate_str))
          /\ pc' = "write_res"
          /\ UNCHANGED result
       \/ /\ ReturnErr
          /\ UNCHANGED res
    /\ UNCHANGED <<cmdline, dirs, out, err, assembled, crates, i, output,
                   console, spawned, done0, exit_code, inflight, finished>>

\* process_crate, lines 188-193: write!, then the report of a failed child
\* and Ok(())
WriteRes ==
    /\ pc = "write_res"
    /\ \/ /\ res' = write_all(res, krate_dir(krate_str), result_bytes(output))
          /\ console' =
                IF success(output.status) THEN console
                ELSE console \cup {Line("completed with error code", krate_str)}
          /\ result' = "ok"
          /\ pc' = "ret"
       \/ /\ res' = write_failed(res, krate_dir(krate_str), result_bytes(output))
          /\ ReturnErr
          /\ UNCHANGED console
    /\ UNCHANGED <<cmdline, dirs, out, err, assembled, crates, i, output,
                   spawned, done0, exit_code, inflight, finished>>

\* base_invocation, lines 135-142: the match on process_crate's result and
\* the next iteration of the loop
LoopNext ==
    /\ pc = "ret"
    /\ console' = IF result = "err"
                  THEN console \cup {Line("error", krate_str)}
                  ELSE console
    /\ finished' = Append(finished, outcome(result, output))
    /\ IF i < Len(crates)
       THEN /\ i' = i + 1
            /\ pc' = "mkdir"
            /\ UNCHANGED exit_code
       ELSE /\ pc' = "done"
            /\ exit_code' = "exit0"
            /\ UNCHANGED i
    /\ output' = NoOutput
    /\ result' = "none"
    /\ UNCHANGED <<cmdline, files, assembled, crates, spawned, done0, inflight>>

\* the harness process is terminated from outside, between any two steps;
\* its memory is lost, the files stay as they are
Kill ==
    /\ pc \in Running
    /\ pc' = "dead"
    /\ exit_code' = "signal"
    /\ Forget
    /\ done0' = {}
    /\ UNCHANGED <<cmdline, files>>

\* the characters of the spec strings the parser is applied to
Alphabet == {"a", "1", "=", " "}

Serde == <<"s", "e", "r", "d", "e">>

Version100 == <<"1", ".", "0", ".", "0">>

\* every string of at most MaxLen characters, and the strings "serde",
\* "serde=1.0.0" and "=1.0.0"
SpecStrings ==
    SeqsUpTo(Alphabet, MaxLen)
        \cup {Serde, Serde \o <<"=">> \o Version100, <<"=">> \o Version100}

\* a harness about to assemble the crates of a command line of one spec
InitParse == \E s \in SpecStrings : Idle(<<s>>, "assemble")

SpecParse == InitParse /\ [][Assemble]_vars

Next ==
    \/ StartRun
    \/ Setup
    \/ Assemble
    \/ CreateDir
    \/ CheckExisting
    \/ RemoveOut
    \/ RemoveErr
    \/ RemoveRes
    \/ Spawn
    \/ Wait
    \/ CreateOut
    \/ WriteOut
    \/ CreateErr
    \/ WriteErr
    \/ CreateRes
    \/ WriteRes
    \/ LoopNext
    \/ Kill

Spec == Init /\ [][Next]_vars

-----------------------------------------------------------------------------
(* One harness run from its command line to the commands of its children *)

\* number of arguments after argv[0]
MaxTokens == 3

Hidden == <<".", "h", "i", "d", "d", "e", "n">>

MetaJson == <<"m", "e", "t", "a">> \o Json

\* an index with the files a, b, .hidden, meta.json and c/d
ExampleIndex ==
    [readable |-> TRUE,
     entries |->
        << [path |-> <<<<"a">>>>, is_file |-> TRUE],
           [path |-> <<<<"b">>>>, is_file |-> TRUE],
           [path |-> <<Hidden>>, is_file |-> TRUE],
           [path |-> <<MetaJson>>, is_file |-> TRUE],
           [path |-> <<<<"c">>>>, is_file |-> FALSE],
           [path |-> <<<<"c">>, <<"d">>>>, is_file |-> TRUE] >>]

\* an index directory that exists and cannot be read
UnreadableIndex == [readable |-> FALSE, entries |-> IndexEntries]

Indexes == {Index, ExampleIndex, UnreadableIndex}

\* the arguments a command line is made of: options, a DIR, specs that parse,
\* the wildcard, specs with leading whitespace, a spec that does not parse
TokenPool ==
    {<<"-", "t">>, <<"-", "-", "b", "e", "n", "c", "h">>, OutFlag, <<"w">>,
     <<"a">>, <<"b", "=", "1">>, Star, <<" ", "*">>, <<" ", "-", "t">>, <<"=">>}

\* main indexes args[1]: there is at least one argument
CommandLines ==
    {<<Argv0>> \o toks : toks \in SeqsUpTo(TokenPool, MaxTokens) \ {<<>>}}

InitInvoke ==
    \E argv \in CommandLines, idx \in Indexes :
        /\ arg_strings = argv
        /\ index = idx
        /\ arg_package_name = <<>>
        /\ flag_force = FALSE
        /\ run = 0
        /\ prev = [how |-> "off", force |-> FALSE]
        /\ pc = "off"
        /\ Fresh
        /\ dirs = {}
        /\ out = NoFiles
        /\ err = NoFiles
        /\ res = NoFiles
        /\ done0 = {}
        /\ exit_code = "none"
        /\ args = DocoptError
        /\ child_argv = <<>>
        /\ child_args = DocoptError
        /\ child_crates = NotAssembled
        /\ child_k = 0
        /\ child_pc = "none"
        /\ child_status = "none"
        /\ child_log = <<>>

\* base_invocation, lines 80-82: decode the command line or exit with the
\* usage error
Docopt ==
    /\ pc = "off"
    /\ arg_strings # <<>>
    /\ run' = run + 1
    /\ args' = docopt(arg_strings)
    /\ IF args'.ok
       THEN /\ arg_package_name' = args'.arg_package_name
            /\ flag_force' = args'.flag_force
            /\ pc' = "setup"
            /\ UNCHANGED exit_code
       ELSE /\ pc' = "usage"
            /\ exit_code' = "exit1"
            /\ UNCHANGED <<arg_package_name, flag_force>>
    /\ UNCHANGED <<prev, index, arg_strings, child_argv, child_args,
                   child_crates, child_k, child_pc, child_status, child_log, files,
                   assembled, crates, i, output, result, console, spawned,
                   done0, inflight, finished>>

\* process_crate, lines 174-180, with the child's main and
\* recursive_invocation, lines 67-76 and 217-228: the command built for
\* crates[i], what the child decodes from it and the crates the child
\* assembles; a child that gets as far as build_crate ends with any status
Recurse ==
    /\ pc = "mkdir"
    /\ child_argv' = Command(config_options(arg_strings, args), krate_str)
    /\ child_args' = child_decode(child_argv')
    /\ child_crates' =
          IF child_args'.ok
          THEN assemble_crate_names(child_args'.arg_package_name,
                                    index_path(child_args', args, index))
          ELSE NotAssembled
    /\ child_status' \in
          IF ~child_args'.ok THEN {"exit1"}
          ELSE IF ~child_crates'.ok THEN {"exit101"}
          ELSE ExitStatuses
    /\ output' = [pkg |-> krate_str, att |-> <<run, i>>, status |-> child_status']
    /\ spawned' = Append(spawned, i)
    /\ result' = "ok"
    /\ pc' = "ret"
    /\ UNCHANGED <<arg_package_name, flag_force, run, prev, index, arg_strings,
                   args, child_k, child_pc, child_log, files, assembled, crates, i,
                   console, done0, exit_code, inflight, finished>>

NextInvoke ==
    \/ Docopt
    \/ Setup
    \/ Assemble
    \/ Recurse
    \/ LoopNext

SpecInvoke == InitInvoke /\ [][NextInvoke]_vars

-----------------------------------------------------------------------------
(* The child process: recursive_invocation and build_crate *)

\* the package names the child is checked with: the lists of the harness
\* runs and the wildcard
ChildArgLists == ArgLists \cup {<<Star>>}

InitChild ==
    \E names \in ChildArgLists, test \in BOOLEAN, bench \in BOOLEAN :
        /\ Off(<<>>, "off")
        /\ arg_strings = <<>>
        /\ args = DocoptError
        /\ child_argv = <<>>
        /\ child_args = [NoArgs EXCEPT !.flag_test = test, !.flag_bench = bench,
                                       !.arg_package_name = names]
        /\ child_crates = NotAssembled
        /\ child_k = 0
        /\ child_pc = "main"
        /\ child_status = "none"
        /\ child_log = <<>>

\* the child leaves cmdline and the harness alone
harness == <<arg_package_name, flag_force, run, prev, index, arg_strings, args,
             child_argv, child_args, pc, assembled, crates, i, files, output,
             result, console, spawned, done0, exit_code, inflight, finished>>

\* the child process ends with a status
exit(status) ==
    /\ child_pc' = "exited"
    /\ child_status' = status

always_test(stage, a) ==
    CASE stage = "compile" -> "test"
      [] stage = "test" -> IF a.flag_bench THEN "bench" ELSE "built"
      [] OTHER -> "built"

\* build_crate, lines 269 and 278: what follows a stage that returned Ok
stage_after(stage, a) ==
    CASE stage = "resolve" -> "download"
      [] stage = "download" -> "compile"
      [] stage = "compile" -> IF a.flag_test THEN "test"
                              ELSE IF a.flag_bench THEN "bench" ELSE "built"
      [] stage = "test" -> IF a.flag_bench THEN "bench" ELSE "built"
      [] OTHER -> "built"

\* a call made by build_crate returns a Result: Ok goes on, Err leaves
\* build_crate through `?` or `return Err`, and the unwrap at line 230 panics
Returns(stage) ==
    /\ \E ok \in BOOLEAN :
          /\ child_log' = Append(child_log, [stage |-> stage, ok |-> ok])
          /\ IF ok
             THEN /\ child_pc' = stage_after(stage, child_args)
                  /\ UNCHANGED child_status
             ELSE exit("exit101")
    /\ UNCHANGED <<harness, child_crates, child_k>>

\* recursive_invocation, lines 223-228: the crates of the child
Recursive ==
    /\ child_pc = "main"
    /\ child_crates' = assemble_crate_names(child_args.arg_package_name, index)
    /\ IF ~child_crates'.ok
       THEN /\ exit("exit101")
            /\ UNCHANGED child_k
       ELSE IF child_crates'.val = <<>>
       THEN /\ exit("exit0")
            /\ UNCHANGED child_k
       ELSE /\ child_k' = 1
            /\ child_pc' = "resolve"
            /\ UNCHANGED child_status
    /\ UNCHANGED <<harness, child_log>>

\* build_crate, lines 238-251: SourceId, Dependency::parse, query, the newest
\* version or NotInRegistry
Resolve ==
    /\ child_pc = "resolve"
    /\ Returns("resolve")

\* build_crate, lines 253-256
Download ==
    /\ child_pc = "download"
    /\ Returns("download")

\* build_crate, lines 258-267
CompilePkg ==
    /\ child_pc = "compile"
    /\ Returns("compile")

\* build_crate, lines 269-276
RunTests ==
    /\ child_pc = "test"
    /\ Returns("test")

\* build_crate, lines 278-286
RunBenches ==
    /\ child_pc = "bench"
    /\ Returns("bench")

\* build_crate, line 288, and the loop of recursive_invocation, lines 229-231
Built ==
    /\ child_pc = "built"
    /\ IF child_k < Len(child_crates.val)
       THEN /\ child_k' = child_k + 1
            /\ child_pc' = "resolve"
            /\ UNCHANGED child_status
       ELSE /\ exit("exit0")
            /\ UNCHANGED child_k
    /\ UNCHANGED <<harness, child_crates, child_log>>

NextChild ==
    \/ Recursive
    \/ Resolve
    \/ Download
    \/ CompilePkg
    \/ RunTests
    \/ RunBenches
    \/ Built

SpecChild == InitChild /\ [][NextChild]_vars

-----------------------------------------------------------------------------
(* Properties *)

\* the directory of the k-th crate of the loop
Dir(k) == krate_dir(to_string(crates[k]))

\* this step spawned a child
SpawnStep == Len(spawned') = Len(spawned) + 1

\* a step of a run leaves alone the records that existed when the run started,
\* and spawns a child only for a crate that had none then, later in the
\* assembled order than every crate it spawned one for before
KeepsDone ==
    /\ \A d \in done0 :
          d \in DOMAIN res /\ d \in DOMAIN res' /\ res'[d] = res[d]
    /\ SpawnStep =>
          /\ Dir(i) \notin done0
          /\ \A n \in 1..Len(spawned) : spawned[n] < i

\* C1 (as stated): a harness restarted with the same arguments after it was
\* stopped spawns a child only for the packages that had no result record,
\* in the assembled order, and never deletes or rewrites the records that
\* existed.
C1_ResumeSameArgs ==
    [][(pc \in Running /\ prev.how = "dead" /\ prev.force = flag_force)
          => KeepsDone]_vars

\* C1 (amended): a harness started without --force spawns a child only for
\* the packages that had no result record when it started, in the assembled
\* order, and never deletes or rewrites the records that existed then.
C1_ResumeNoForce ==
    [][(pc \in Running /\ ~flag_force) => KeepsDone]_vars

\* a run restarted without --force after a kill has finished: it found records,
\* skipped those packages and spawned a child for another one
C1_Witness ==
    /\ pc = "done"
    /\ prev.how = "dead"
    /\ ~prev.force
    /\ ~flag_force
    /\ spawned # <<>>
    /\ \E k \in 1..Len(crates) : Dir(k) \in done0

\* C2: after a run has completed, a second run with the same arguments and no
\* --force spawns no child and leaves every result record and capture file
\* as it is.
C2_Idempotent ==
    [][(pc \in Running /\ prev.how = "done" /\ ~prev.force /\ ~flag_force)
          => (~SpawnStep /\ res' = res /\ out' = out /\ err' = err)]_vars

\* process_crate has returned for a crate whose child ended abnormally
ChildFailed == pc = "ret" /\ output # NoOutput /\ ~success(output.status)

\* the record of the crate of the loop is the complete record of the child
\* whose Output is in hand
Recorded ==
    /\ Dir(i) \in DOMAIN res
    /\ res[Dir(i)] = result_bytes(output)

\* C3: when the child of a package ends abnormally the harness has a failure
\* record for it once process_crate returns, and the loop goes on to the next
\* package whatever process_crate returned (unless the harness is killed).
C3_CrashContained ==
    [][pc = "ret" =>
          /\ ChildFailed => Recorded
          /\ \/ pc' = "dead"
             \/ IF i < Len(crates)
                THEN pc' = "mkdir" /\ i' = i + 1
                ELSE pc' = "done"]_vars

\* C4: a results.txt that exists holds the complete record, in every state
\* (so also in the state a kill leaves behind).
C4_AtomicRecord == \A d \in DOMAIN res : res[d].len = "full"

\* C5: whenever results.txt exists for a package, its stdout and stderr files
\* exist and hold the complete output of the attempt that wrote the record.
C5_MarkerLast ==
    \A d \in DOMAIN res :
        /\ d \in DOMAIN out
        /\ d \in DOMAIN err
        /\ out[d].len = "full"
        /\ err[d].len = "full"
        /\ res[d].len = "full" =>
              out[d].att = res[d].att /\ err[d].att = res[d].att

\* C6: when a run has completed (it was not killed), every crate of the
\* assembled set has a complete result record.
C6_OutcomeComplete ==
    pc = "done" =>
        \A k \in 1..Len(crates) :
            Dir(k) \in DOMAIN res /\ res[Dir(k)].len = "full"

\* the file at path d, if there is one, holds nothing or bytes of the Output
\* in hand only
OnlyNew(f, d) ==
    d \in DOMAIN f =>
        f[d] = EmptyFile \/ (f[d].pkg = output.pkg /\ f[d].att = output.att)

ProgressKinds ==
    {"re-using existing results", "processing", "completed with error code", "error"}

WellFormed(s) ==
    LET q == SkipSpace(s, 1)
        e == TokEnd(s, q)
        r == SkipSpace(s, e)
        v == SkipSpace(s, r + 1)
        w == TokEnd(s, v)
    IN /\ e > q
       /\ \/ r > Len(s)
          \/ /\ s[r] = "="
             /\ w > v
             /\ SkipSpace(s, w) > Len(s)

\* C10: a spec is accepted iff the whole string is a name token optionally
\* followed by "=" and a version token; "serde" gives {serde, None},
\* "serde=1.0.0" gives {serde, Some(1.0.0)}, "=1.0.0" and "" are rejected.
C10_SpecGrammar ==
    (pc # "assemble" /\ Len(arg_package_name) = 1) =>
        LET s == arg_package_name[1]
        IN /\ assembled.ok <=> WellFormed(s)
           /\ s = Serde =>
                 assembled.val = <<KrateName(Serde, NoVersion)>>
           /\ s = Serde \o <<"=">> \o Version100 =>
                 assembled.val = <<KrateName(Serde, Some(Version100))>>
           /\ s \in {<<"=">> \o Version100, <<>>} => ~assembled.ok

-----------------------------------------------------------------------------
(* Assembly of the package set *)

\* the harness has assembled its crates and not lost its memory since
Assembled == pc \in (Running \ {"setup", "assemble"}) \cup {"done"}

\* the specs of a list that parse, parsed, in input order
RECURSIVE well_formed(_, _)
well_formed(names, k) ==
    IF k > Len(names) THEN <<>>
    ELSE LET c == captures(names[k])
         IN (IF c.matched THEN <<KrateName(c.g1, c.g2)>> ELSE <<>>)
                \o well_formed(names, k + 1)

\* C11: a spec that fails to parse is excluded and the other specs of the
\* list, in input order, are what the loop iterates over; when the run is
\* complete process_crate has been called for each of them.
C11_MalformedExcluded ==
    (Assembled /\ Star \notin {arg_package_name[k] : k \in DOMAIN arg_package_name})
        => /\ crates = well_formed(arg_package_name, 1)
           /\ pc = "done" => Len(finished) = Len(crates)

\* "*" is one of the specs of the command line
HasStar == \E k \in 1..Len(arg_package_name) : arg_package_name[k] = Star

\* a name that begins with '.' or ends with ".json"
Excluded(name) ==
    \/ Len(name) >= 1 /\ name[1] = "."
    \/ Len(name) >= 5 /\ SubSeq(name, Len(name) - 4, Len(name)) = <<".", "j", "s", "o", "n">>

\* the positions, in a walk, of the regular files with no excluded path
\* component
KeptFiles(entries) ==
    {k \in 1..Len(entries) :
        /\ entries[k].is_file
        /\ \A c \in 1..Len(entries[k].path) : ~Excluded(entries[k].path[c])}

\* the positions, in a walk, of the regular files whose own name is not
\* excluded
KeptByOwnName(entries) ==
    {k \in 1..Len(entries) :
        /\ entries[k].is_file
        /\ ~Excluded(entries[k].path[Len(entries[k].path)])}

\* the n-th smallest element of a set of positions
Nth(S, n) == CHOOSE m \in S : Cardinality({x \in S : x <= m}) = n

FileName(path) == path[Len(path)]

\* the path below the index root, its components joined by '/'
RECURSIVE RelativePath(_, _)
RelativePath(path, k) ==
    IF k = Len(path) THEN path[k]
    ELSE path[k] \o <<"/">> \o RelativePath(path, k + 1)

\* C12 (as the code has it): with "*" among the specs the other specs are
\* ignored and the crates are, in the order of the walk, one versionless
\* identifier per regular file under a readable index root none of whose path
\* components below the root begins with '.' or ends with ".json"; the
\* identifier is the file's name, without its directories.
C12_WildcardFileNames ==
    (Assembled /\ HasStar /\ index.readable) =>
        LET kept == KeptFiles(index.entries)
        IN /\ assembled.ok
           /\ Len(crates) = Cardinality(kept)
           /\ \A n \in 1..Len(crates) :
                crates[n] = KrateName(FileName(index.entries[Nth(kept, n)].path),
                                      NoVersion)

C12_Witness ==
    /\ pc = "done"
    /\ HasStar
    /\ Len(arg_package_name) > 1
    /\ index = ExampleIndex
    /\ Len(crates) = 3
    /\ crates[3] = KrateName(<<"d">>, NoVersion)

\* C12 (as stated): the identifiers are those of every regular file whose
\* name is not excluded, c/d for the file d in the directory c.
C12_WildcardPaths ==
    (Assembled /\ HasStar /\ index.readable) =>
        LET kept == KeptByOwnName(index.entries)
        IN /\ assembled.ok
           /\ Len(crates) = Cardinality(kept)
           /\ \A n \in 1..Len(crates) :
                crates[n] = KrateName(RelativePath(index.entries[Nth(kept, n)].path, 1),
                                      NoVersion)

\* C13: when "*" is among the specs and the index root cannot be read, the
\* assembly fails and the run ends as a fatal error: it does not end with
\* exit code 0 on an assembled (empty) package set.
C13_UnreadableIndexFatal ==
    (HasStar /\ ~index.readable /\ pc = "done") =>
        /\ ~assembled.ok
        /\ exit_code # "exit0"

-----------------------------------------------------------------------------
(* Exit code, scheduling and harness-side failures *)

\* C14: the harness exits 0 only with the package set assembled and
\* process_crate returned for every package of it, whatever it returned; a
\* fatal setup error, the failure of the assembly included, gives a non-zero
\* exit code with no package attempted.
C14_ExitCodes ==
    /\ exit_code = "exit0" =>
          /\ assembled.ok
          /\ Len(finished) = Len(crates)
    /\ exit_code \in {"exit1", "exit101"} =>
          /\ spawned = <<>>
          /\ finished = <<>>

-----------------------------------------------------------------------------
(* The child's command line and crates *)

\* the configuration two decoded command lines give
RunConfig(a) ==
    <<a.flag_out, a.flag_test, a.flag_bench, a.flag_release, a.flag_force>>

\* the command for crates[i] has been built and decoded by the child
Recursed == pc = "ret" /\ child_argv # <<>>

\* C15: the child's command has --recurse as its first argument and the one
\* package identifier as its last, and the child decodes from it the
\* configuration the parent decoded and that single package.
C15_ChildCommand ==
    Recursed =>
        /\ child_argv[2] = RecurseFlag
        /\ child_argv[Len(child_argv)] = krate_str
        /\ child_args.ok
        /\ RunConfig(child_args) = RunConfig(args)
        /\ child_args.arg_package_name = <<krate_str>>

\* C19: the child, given the display string of crates[i] as its package
\* name, assembles exactly one crate, equal to crates[i].
C19_RoundTrip ==
    (Recursed /\ child_args.ok /\ child_args.arg_package_name = <<krate_str>>
              /\ RunConfig(child_args) = RunConfig(args)) =>
        child_crates = [ok |-> TRUE, val |-> <<krate>>]

-----------------------------------------------------------------------------
(* The stages of the child *)

\* the last stage the child ran
LastStage == child_log[Len(child_log)]

\* C16: when --bench is set and only run_benches fails, every stage before it
\* having succeeded, the child exits 0.
C16_BenchNonFatal ==
    (/\ child_pc = "exited"
     /\ child_log # <<>>
     /\ LastStage = [stage |-> "bench", ok |-> FALSE]
     /\ \A k \in 1..(Len(child_log) - 1) : child_log[k].ok)
        => child_status = "exit0"

\* the stages of one package, for a configuration
Stages(a) ==
    <<"resolve", "download", "compile">>
        \o (IF a.flag_test THEN <<"test">> ELSE <<>>)
        \o (IF a.flag_bench THEN <<"bench">> ELSE <<>>)

\* the stages of n packages one after the other
RECURSIVE Plan(_, _)
Plan(a, n) == IF n = 0 THEN <<>> ELSE Stages(a) \o Plan(a, n - 1)

\* C18: the stages the child has run are a prefix of resolve, download,
\* compile, test (iff --test), bench (iff --bench) for each of its packages
\* in turn; only the last stage run can have failed; and the child exits 0
\* iff every stage it ran succeeded, having then run all of them, and with
\* the panic's code 101 otherwise.
C18_StageMachine ==
    (child_crates.ok /\ child_pc \notin {"none", "main"}) =>
        LET plan == Plan(child_args, Len(child_crates.val))
        IN /\ Len(child_log) <= Len(plan)
           /\ \A k \in 1..Len(child_log) : child_log[k].stage = plan[k]
           /\ \A k \in 1..(Len(child_log) - 1) : child_log[k].ok
           /\ child_pc = "exited" =>
                /\ child_status = "exit0" <=> \A k \in 1..Len(child_log) : child_log[k].ok
                /\ child_status = "exit0" => Len(child_log) = Len(plan)
                /\ child_status \in {"exit0", "exit101"}

C18_Witness ==
    /\ child_pc = "exited"
    /\ child_args.flag_test
    /\ ~child_args.flag_bench
    /\ Len(child_crates.val) = 2
    /\ Len(child_log) = 7
    /\ LastStage = [stage |-> "compile", ok |-> FALSE]
    /\ child_status = "exit101"

-----------------------------------------------------------------------------
(* Scheduling *)

\* the positions of the harness inside the loop over crates
InLoop == Running \ {"setup", "assemble"}

\* the capture files and the record of crates[i] hold all the bytes of the
\* child this run spawned for it
Captured ==
    /\ Dir(i) \in DOMAIN out /\ out[Dir(i)] = stdout_bytes(output)
    /\ Dir(i) \in DOMAIN err /\ err[Dir(i)] = stderr_bytes(output)
    /\ Dir(i) \in DOMAIN res /\ res[Dir(i)] = result_bytes(output)
    /\ output.att = <<run, i>>

\* C17: at most one child is running, and only while the harness waits for
\* it in process_crate for crates[i]; process_crate is called for crates[i]
\* when it has returned for every earlier crate, each of them recorded (its
\* capture files and record written), skipped or failed in the harness; and
\* children are spawned in the order of the assembled sequence.
C17_Sequential ==
    /\ Cardinality(inflight) <= 1
    /\ inflight # {} => pc = "wait" /\ inflight = {i}
    /\ pc \in InLoop =>
          /\ i \in 1..Len(crates)
          /\ Len(finished) = i - 1
    /\ (pc = "ret" /\ outcome(result, output) = "recorded") => Captured
    /\ \A n \in 1..Len(spawned) :
          /\ spawned[n] <= i
          /\ \A m \in 1..(n - 1) : spawned[m] < spawned[n]

C17_Witness ==
    /\ pc = "wait"
    /\ i = 2
    /\ inflight = {2}
    /\ spawned = <<1, 2>>
    /\ finished = <<"recorded">>

-----------------------------------------------------------------------------
(* Harness-side failures *)

\* C20: when process_crate has returned an error for crates[i], there is no
\* results.txt in its directory, and the harness (unless it is killed) prints
\* the error line for it and goes on to the next crate of the loop.
C20_HarnessFailure ==
    [][(pc = "ret" /\ result = "err") =>
          /\ Dir(i) \notin DOMAIN res
          /\ \/ pc' = "dead"
             \/ /\ Line("error", krate_str) \in console'
                /\ IF i < Len(crates)
                   THEN pc' = "mkdir" /\ i' = i + 1
                   ELSE pc' = "done"]_vars

====
